---- MODULE Spec2Model ----
(***************************************************************************)
(* A model of the closed-loop pipeline of Agentic Studio Pro:              *)
(*   - GeminiService.sendPrompt / retryWithBackoff / formatErrorMessage    *)
(*     (the completion client),                                            *)
(*   - CompilationService.validateCode / isRecoverableError (the build     *)
(*     validator),                                                         *)
(*   - AgentOrchestrator (start, stop, the phases, the self-healing loop). *)
(*                                                                         *)
(* JavaScript runs one task at a time: the code between two suspension     *)
(* points that wait for the outside world (a fetch, a backoff timer, a     *)
(* simulation timer) runs without interleaving.  Awaits of promises that   *)
(* are already settled (validateCode, staticAnalysis, a phase that returns *)
(* at once) resume in the microtask queue of the same task, so they are    *)
(* part of the same step.  One action of the model is one such step.       *)
(*                                                                         *)
(* Texts are sequences of fragments: a fragment is an atomic piece of      *)
(* text, and String.includes(p) is "p is one of the fragments".            *)
(***************************************************************************)
EXTENDS Integers, Sequences, FiniteSets, TLC

VARIABLES
    apiKey,               \* GeminiService.apiKey is configured (fixed at construction)
    configMode,           \* AgentWorkflowConfig.mode (fixed at construction)
    isRunning,            \* AgentOrchestrator.isRunning
    currentPhase,         \* AgentOrchestrator.currentPhase
    projectState,         \* AgentOrchestrator.projectState
    conversationHistory,  \* AgentOrchestrator.conversationHistory
    runs,                 \* the activations of start(): position and what each has emitted
    rejected,             \* a start() call has thrown because a workflow was running
    client,               \* a direct GeminiService.sendPrompt call: the retry loop's state
    clientLog,            \* the outcomes of the request attempts of that call, in order
    clientWaits,          \* the backoff delays that call has waited, in order
    clientError,          \* the message of the error that call threw (<<>>: none)
    fileSet,              \* a direct validateCode call: projectState.file_system passed in
    validation,           \* what that call and isRecoverableError on its result returned
    responseText,         \* a direct parseAgentResponse call: rawResponse
    parsedResponse,       \* what that call returned
    fixSet,               \* the fixes of a Patcher response applied to fileSet
    patched               \* the file_system the fixes left

vars == <<apiKey, configMode, isRunning, currentPhase, projectState,
          conversationHistory, runs, rejected, client, clientLog, clientWaits,
          clientError, fileSet, validation, responseText, parsedResponse, fixSet,
          patched>>

orchVars ==
    <<isRunning, currentPhase, projectState, conversationHistory, runs, rejected>>
clientVars == <<client, clientLog, clientWaits, clientError>>
libVars == <<fileSet, validation, responseText, parsedResponse, fixSet, patched>>

(***************************************************************************)
(* Bounds of the model.                                                    *)
(***************************************************************************)
\* accepted start() calls in one behaviour
MaxRuns == 2
\* segments of a response text handed to parseAgentResponse
MaxSegments == 2
\* files of a file set handed to validateCode, and lines of each file
MaxFiles == 1
MaxLines == 1
\* fixes of a Patcher response
MaxFixes == 2

(***************************************************************************)
(* Program constants.                                                      *)
(***************************************************************************)
maxRetries == 3
initialDelay == 1000
maxDelay == 10000
max_iterations == 3

Min(a, b) == IF a <= b THEN a ELSE b

\* the sequences over S of length at most n
RECURSIVE SeqsUpTo(_, _)
SeqsUpTo(S, n) ==
    IF n = 0 THEN {<<>>}
    ELSE LET shorter == SeqsUpTo(S, n - 1)
         IN  shorter \cup {Append(t, x) : t \in shorter, x \in S}

\* String.prototype.includes on a text made of fragments
Includes(text, fragment) == \E i \in DOMAIN text : text[i] = fragment

(***************************************************************************)
(* GeminiService                                                           *)
(***************************************************************************)

\* sendPrompt, the apiKey guard: the error thrown before any request
KeyMissingMessage ==
    <<"Gemini ", "API key", " not configured. Please add VITE_GEMINI_API_KEY to your .env file.">>

\* error.error?.message || error.message || 'Unknown error', by the kind of JSON body
BodyMessage(body) ==
    CASE body = "plain"   -> <<"quota exhausted">>
      [] body = "apikey"  -> <<"API key", " not valid. Please pass a valid ", "API key", ".">>
      [] OTHER            -> <<"Unknown error">>

formatErrorMessage(message, status) ==
    CASE status = 400 -> <<"Invalid request: ">> \o message
      [] status = 401 -> <<"Invalid ", "API key", ". Please check your VITE_GEMINI_API_KEY in .env file.">>
      [] status = 403 -> <<"API access forbidden. Please check your ", "API key", " permissions.">>
      [] status = 429 -> <<"Rate limit exceeded. Please try again in a moment.">>
      [] status \in {500, 503} -> <<"Gemini API is temporarily unavailable. Please try again later.">>
      [] OTHER -> <<"Gemini API error (", ToString(status), "): ">> \o message

\* What one request attempt can meet.  kind: "ok" (a body with text), "empty" (a
\* body without text), "http" (response.ok false; body: the error body is JSON
\* without a message, with a plain message, with a message naming the API key,
\* or is not JSON at all), "network" (fetch itself rejects).
Statuses == {400, 401, 403, 404, 429, 500, 503}
Bodies == {"nomsg", "plain", "apikey", "notjson"}
Failures ==
    [kind : {"http"}, status : Statuses, body : Bodies]
      \cup [kind : {"empty", "network"}, status : {0}, body : {"nomsg"}]
OkOutcome == [kind |-> "ok", status |-> 200, body |-> "nomsg"]
Outcomes == Failures \cup {OkOutcome}

\* The Error the attempt function of sendPrompt throws for a failed attempt.
\* response.json() rejects with a SyntaxError when the error body is not JSON:
\* that error is rethrown as it is and formatErrorMessage is never reached.
AttemptError(o) ==
    CASE o.kind = "empty"   -> <<"Empty response from Gemini API">>
      [] o.kind = "network" -> <<"Failed to fetch">>
      [] o.kind = "http" /\ o.body = "notjson" -> <<"Unexpected token < in JSON at position 0">>
      [] OTHER -> formatErrorMessage(BodyMessage(o.body), o.status)

\* retryWithBackoff: "Don't retry on authentication errors"
NoRetryMessage(message) == Includes(message, "API key") \/ Includes(message, "401")

\* The state of one retryWithBackoff activation: st is "fetch" (a request attempt
\* is in flight), "wait" (the backoff timer is running), "returned", "thrown",
\* or "none" (no call).
NoCall == [st |-> "none", attempt |-> 0, delay |-> 0]
NewCall == [st |-> "fetch", attempt |-> 0, delay |-> initialDelay]

\* AfterFailure giving up at the first failure
AfterFailureNoRetry(call, message) == [call EXCEPT !.st = "thrown"]

\* retryWithBackoff, the catch block, up to the setTimeout
AfterFailure(call, message) ==
    IF NoRetryMessage(message) THEN [call EXCEPT !.st = "thrown"]
    ELSE IF call.attempt = maxRetries THEN [call EXCEPT !.st = "thrown"]
    ELSE [call EXCEPT !.st = "wait"]

\* AfterBackoff with the delay tripled
AfterBackoffTripled(call) ==
    [call EXCEPT !.delay = Min(call.delay * 3, maxDelay),
                 !.attempt = call.attempt + 1,
                 !.st = "fetch"]

\* AfterBackoff without attempt++ and without the doubling of the delay
AfterBackoffSameAttempt(call) == [call EXCEPT !.st = "fetch"]

\* retryWithBackoff, after the setTimeout: the next delay, the next attempt
AfterBackoff(call) ==
    [call EXCEPT !.delay = Min(call.delay * 2, maxDelay),
                 !.attempt = call.attempt + 1,
                 !.st = "fetch"]

(***************************************************************************)
(* A direct call of the exported geminiService.sendPrompt.                 *)
(***************************************************************************)
ClientSendPrompt ==
    /\ client.st \in {"none", "returned", "thrown"}
    /\ IF ~apiKey
         THEN /\ client' = [NoCall EXCEPT !.st = "thrown"]
              /\ clientError' = KeyMissingMessage
         ELSE /\ client' = NewCall
              /\ clientError' = <<>>
    /\ clientLog' = <<>>
    /\ clientWaits' = <<>>
    /\ UNCHANGED <<apiKey, configMode, orchVars, libVars>>

ClientAttemptEnds ==
    /\ client.st = "fetch"
    /\ \E o \in Outcomes :
         /\ clientLog' = Append(clientLog, o)
         /\ IF o.kind = "ok"
              THEN /\ client' = [client EXCEPT !.st = "returned"]
                   /\ clientError' = <<>>
              ELSE /\ client' = AfterFailure(client, AttemptError(o))
                   /\ clientError' = IF AfterFailure(client, AttemptError(o)).st = "thrown"
                                       THEN AttemptError(o) ELSE <<>>
    /\ UNCHANGED <<clientWaits, apiKey, configMode, orchVars, libVars>>

ClientBackoffEnds ==
    /\ client.st = "wait"
    /\ clientWaits' = Append(clientWaits, client.delay)
    /\ client' = AfterBackoff(client)
    /\ UNCHANGED <<clientLog, clientError, apiKey, configMode, orchVars, libVars>>

(***************************************************************************)
(* CompilationService                                                      *)
(*                                                                         *)
(* A file's content is a sequence of lines; a line is one of a few         *)
(* concrete source lines, named by LineText.  The empty sequence is a      *)
(* content that is absent or '' (both are falsy wherever the code tests    *)
(* file.content).                                                          *)
(***************************************************************************)
Lines == {"clean", "todo", "todoBare", "importTodo", "linechart", "line"}

\* the substrings analyzeFile looks for that each line contains:
\*   clean      const total = 42;
\*   todo       // TODO: implement
\*   todoBare   /* TODO: implement */
\*   importTodo import { api } from './api'; // TODO: real client
\*   linechart  import { LineChart } from 'recharts';
\*   line       import { Line } from 'recharts';
LineText(l) ==
    CASE l = "todo"      -> {"// TODO:", "TODO:", "TODO"}
      [] l = "todoBare"  -> {"TODO:", "TODO"}
      [] l = "importTodo" -> {"import", "from", "// TODO:", "TODO:", "TODO"}
      [] l = "linechart" -> {"import", "from", "recharts", "LineChart"}
      [] l = "line"      -> {"import", "from", "recharts"}
      [] OTHER           -> {}

\* (line.match(/{/g) || []).length and (line.match(/}/g) || []).length
OpenBraces(l) == IF l \in {"linechart", "line", "importTodo"} THEN 1 ELSE 0
CloseBraces(l) == IF l \in {"linechart", "line", "importTodo"} THEN 1 ELSE 0

\* line.trim().match(/^\w+:\s*\w+\s*$/) && !line.includes(';') && !line.includes('{')
BareField(l) == FALSE

\* the paths of the model; NotAString is a path that is not a string
\* (file.path.match is then not a function)
NotAString == "<number>"
Paths == {"src/App.tsx", "src/ENOMEM.ts", "src/enospc.js", "README.md", NotAString}

\* file.path.match(/\.(tsx?|jsx?)$/)
IsCodePath(path) == path \in {"src/App.tsx", "src/ENOMEM.ts", "src/enospc.js"}

\* the fatal patterns, lower-cased, that path.toLowerCase() contains
PathLower(path) ==
    CASE path = "src/ENOMEM.ts" -> {"enomem"}
      [] path = "src/enospc.js" -> {"enospc"}
      [] OTHER -> {}

lazyPatterns ==
    <<"// ... rest of code", "// TODO:", "// Implement later", "// Add more",
      "Lorem ipsum", "Sample Product 1">>

Diagnostic(path, n, type, message) ==
    [file |-> path, line |-> n, type |-> type, message |-> message]

\* analyzeFile, the body of lines.forEach for line number n
analyzeLine(path, n, l) ==
    LET has(p) == p \in LineText(l)
        found == SelectSeq(lazyPatterns, has)
    IN  (IF has("import") /\ has("from")
           THEN (IF has("recharts") /\ has("LineChart")
                   THEN <<Diagnostic(path, n, "import",
                            "Module recharts has no exported member LineChart")>>
                   ELSE <<>>)
                \o (IF has("// Import") \/ has("TODO")
                      THEN <<Diagnostic(path, n, "syntax", "Placeholder import detected")>>
                      ELSE <<>>)
           ELSE <<>>)
        \o [i \in 1..Len(found) |->
              Diagnostic(path, n, "syntax", "Forbidden placeholder detected: " \o found[i])]
        \o (IF OpenBraces(l) # CloseBraces(l) /\ CloseBraces(l) > OpenBraces(l)
              THEN <<Diagnostic(path, n, "syntax", "Unexpected token }")>>
              ELSE <<>>)
        \o (IF BareField(l)
              THEN <<Diagnostic(path, n, "syntax", "Missing semicolon in interface definition")>>
              ELSE <<>>)

RECURSIVE analyzeFrom(_, _, _)
analyzeFrom(path, content, n) ==
    IF n > Len(content) THEN <<>>
    ELSE analyzeLine(path, n, content[n]) \o analyzeFrom(path, content, n + 1)

analyzeFile(path, content) == analyzeFrom(path, content, 1)

\* staticAnalysis skips what is not a file with content, and what is not code
Analyzed(file) == file.type = "file" /\ file.content # <<>>

RECURSIVE staticAnalysisFrom(_, _)
staticAnalysisFrom(fs, i) ==
    IF i > Len(fs) THEN <<>>
    ELSE (IF Analyzed(fs[i]) /\ IsCodePath(fs[i].path)
            THEN analyzeFile(fs[i].path, fs[i].content) ELSE <<>>)
         \o staticAnalysisFrom(fs, i + 1)

staticAnalysis(fs) == staticAnalysisFrom(fs, 1)

\* staticAnalysis throws a TypeError on a file with content whose path is no string
staticAnalysisThrows(fs) == \E i \in DOMAIN fs : Analyzed(fs[i]) /\ fs[i].path = NotAString

\* validateCode reporting a failure of the analysis as a clean build
validateCodeSwallowing(ps) ==
    IF staticAnalysisThrows(ps.file_system)
      THEN [success |-> TRUE, exit_code |-> 0, stderr |-> <<>>]
    ELSE IF Len(staticAnalysis(ps.file_system)) > 0
      THEN [success |-> FALSE, exit_code |-> 1, stderr |-> staticAnalysis(ps.file_system)]
    ELSE [success |-> TRUE, exit_code |-> 0, stderr |-> <<>>]

\* stderr is the formatted diagnostics, in order
validateCode(ps) ==
    IF staticAnalysisThrows(ps.file_system)
      THEN [success |-> FALSE, exit_code |-> 2,
            stderr |-> <<Diagnostic("build", 0, "runtime", "file.path.match is not a function")>>]
    ELSE IF Len(staticAnalysis(ps.file_system)) > 0
      THEN [success |-> FALSE, exit_code |-> 1, stderr |-> staticAnalysis(ps.file_system)]
    ELSE [success |-> TRUE, exit_code |-> 0, stderr |-> <<>>]

fatalPatterns == {"enospc", "enomem", "permission denied", "cannot find module '@/"}

\* result.stderr.toLowerCase().includes(pattern.toLowerCase()): of the texts stderr
\* is made of, only a file path can hold a fatal pattern
StderrIncludes(stderr, pattern) ==
    \E i \in DOMAIN stderr : pattern \in PathLower(stderr[i].file)

\* isRecoverableError comparing without toLowerCase: 'ENOMEM' is found in
\* src/ENOMEM.ts, 'ENOSPC' is not found in src/enospc.js
isRecoverableErrorExactCase(result) ==
    IF result.success THEN FALSE
    ELSE ~ \E i \in DOMAIN result.stderr : result.stderr[i].file = "src/ENOMEM.ts"

isRecoverableError(result) ==
    IF result.success THEN FALSE
    ELSE ~ \E pattern \in fatalPatterns : StderrIncludes(result.stderr, pattern)

\* no validateCode call has returned yet
NotValidated ==
    [called |-> FALSE, threw |-> FALSE, result |-> [success |-> TRUE, exit_code |-> 0, stderr |-> <<>>],
     recoverable |-> FALSE]

\* no parseAgentResponse call has returned yet
NotParsed ==
    [called |-> FALSE, threw |-> FALSE, raw |-> FALSE, output |-> <<>>, value |-> "none"]

\* the contents of at most m lines, and the file sets of at most n files handed
\* to a direct validateCode call
Contents(m) == SeqsUpTo(Lines, m)
FileSets(n) ==
    SeqsUpTo([path : Paths, type : {"file", "directory"}, content : Contents(MaxLines)], n)

\* compilationService.validateCode(projectState) is called, then
\* compilationService.isRecoverableError on its result.  The try block of
\* validateCode spans its whole body: the call returns in every case.
ValidateCode ==
    /\ ~validation.called
    /\ validation' =
         [called |-> TRUE, threw |-> FALSE,
          result |-> validateCode([file_system |-> fileSet]),
          recoverable |-> isRecoverableError(validateCode([file_system |-> fileSet]))]
    /\ UNCHANGED <<apiKey, configMode, orchVars, clientVars, fileSet, responseText,
                   parsedResponse, fixSet, patched>>

(***************************************************************************)
(* AgentOrchestrator                                                       *)
(***************************************************************************)
Runs == 1..MaxRuns

\* createInitialState
createInitialState ==
    [status |-> "IDLE", user_prompt |-> "", plan |-> "none", design_system |-> "none",
     file_system |-> <<>>, terminal_logs |-> <<>>, iteration_count |-> 0,
     max_iterations |-> max_iterations, generatedCode |-> FALSE]

NoResult == [success |-> TRUE, exit_code |-> 0, stderr |-> <<>>]

\* One activation of start().  pc: "idle" (not called yet), "call" (suspended in
\* the sendPrompt of phase `phase`), "sim" (suspended in the timer of simulation
\* step `step`), "done" (start has returned).  mode is start's local `mode`,
\* result the `result` of executeCompilationAndHealing.  The other fields record
\* what the activation has done: whether it announced READY through onPhaseChange, the
\* number of onComplete and onError calls, the Patch requests it sent, whether it
\* logged a fatal build error or the exhaustion of the healing budget, whether
\* stop() was called while it was in flight, whether it emitted an event after
\* its terminal callback, how many attempts of its last returned sendPrompt had
\* failed, whether a Patcher response of it asked for human help, how many
\* times it logged 'Same error persists', how many times it called
\* validateCode, how many of its sendPrompt calls returned a response, how many
\* times it called onStateUpdate, the projectState as the last of these
\* calls found it, and its calls of onLog ("log") and of onPhaseChange (the
\* phase announced) in the order it made them.
IdleRun ==
    [pc |-> "idle", mode |-> "none", phase |-> "IDLE", step |-> 0, call |-> NoCall,
     result |-> NoResult, ready |-> FALSE, completed |-> 0, errored |-> 0,
     patchRequests |-> 0, fatal |-> FALSE, maxReached |-> FALSE, stopped |-> FALSE,
     lateEvent |-> FALSE, retried |-> 0, helped |-> FALSE, sameError |-> 0,
     validations |-> 0, responses |-> 0, updates |-> 0,
     delivered |-> createInitialState, events |-> <<>>]

\* The orchestrator as one activation sees and changes it.
Machine(r) ==
    [isRunning |-> isRunning, currentPhase |-> currentPhase, ps |-> projectState,
     hist |-> conversationHistory, run |-> runs[r]]

Terminated(run) == run.completed + run.errored > 0

\* config.onLog, config.onStateUpdate (notifyStateUpdate)
Emit(M) == [M EXCEPT !.run.lateEvent = @ \/ Terminated(M.run)]
onLog(M) == Emit([M EXCEPT !.run.events = Append(@, "log")])
notifyStateUpdate(M) ==
    Emit([M EXCEPT !.run.updates = @ + 1, !.run.delivered = M.ps])

\* config.onPhaseChange
onPhaseChange(M, p) ==
    Emit([M EXCEPT !.run.ready = @ \/ (p = "READY"),
                   !.run.events = Append(@, p)])

onComplete(M) == [M EXCEPT !.run.completed = @ + 1]
onError(M) == [M EXCEPT !.run.errored = @ + 1]

\* start, the finally block; the activation is over
startFinally(M) ==
    [M EXCEPT !.isRunning = FALSE, !.run.pc = "done", !.run.phase = "IDLE",
              !.run.step = 0, !.run.call = NoCall, !.run.result = NoResult]

\* start: the try block ran to its end
startReturns(M) == startFinally(onComplete(M))

\* startCatches without the onError call
startCatchesSilently(M) == startFinally(M)

\* startCatches with isRunning left set
startCatchesStillRunning(M) == [startFinally(onError(M)) EXCEPT !.isRunning = TRUE]

\* start, the outer catch
startCatches(M) == startFinally(onError(M))

\* SIMULATION_STEPS, the phase of each step
SIMULATION_STEPS ==
    <<"PLANNING", "PLANNING", "PLANNING", "PLANNING", "DESIGNING", "DESIGNING",
      "ARCHITECTING", "ARCHITECTING", "CODING", "CODING", "CODING", "CODING",
      "PATCHING", "PATCHING", "PATCHING", "READY", "READY", "READY">>

\* runSimulation from the head of the loop at step i, to the timer or to the end
runSimulationFrom(M, i) ==
    IF i > Len(SIMULATION_STEPS) \/ ~M.isRunning
      THEN startReturns(M)
      ELSE [M EXCEPT !.run.pc = "sim", !.run.step = i, !.run.phase = "IDLE",
                     !.run.call = NoCall]

runSimulation(M) == runSimulationFrom(M, 1)

\* simulationStep calling onLog before onPhaseChange
simulationStepLogFirst(M) ==
    runSimulationFrom(
        onPhaseChange(onLog([M EXCEPT !.currentPhase = SIMULATION_STEPS[M.run.step]]),
                      SIMULATION_STEPS[M.run.step]),
        M.run.step + 1)

\* runSimulation, the rest of the loop body once the timer of the step has fired
simulationStep(M) ==
    runSimulationFrom(
        onLog(onPhaseChange([M EXCEPT !.currentPhase = SIMULATION_STEPS[M.run.step]],
                            SIMULATION_STEPS[M.run.step])),
        M.run.step + 1)

\* aiWorkflowThrows with every error of runAIWorkflow caught by the hybrid branch
aiWorkflowFallsBack(M) == runSimulation(onLog(M))

\* An error leaves runAIWorkflow.  In the hybrid branch of start the inner catch
\* logs and runs the simulation; in the ai branch the outer catch takes it.
aiWorkflowThrows(M) ==
    IF M.run.mode = "hybrid" THEN runSimulation(onLog(M)) ELSE startCatches(M)

\* this.currentPhase = p; this.projectState.status = p; this.config.onPhaseChange(p)
enterPhase(M, p) ==
    onPhaseChange([M EXCEPT !.currentPhase = p, !.ps.status = p], p)

\* geminiService.sendPrompt is called for phase p: it throws at once without a
\* key, else the first request attempt is in flight
sendPrompt(M, p) ==
    IF ~apiKey THEN aiWorkflowThrows(M)
    ELSE [M EXCEPT !.run.pc = "call", !.run.phase = p, !.run.call = NewCall,
                   !.run.patchRequests = IF p = "PATCHING" THEN @ + 1 ELSE @]

\* addToHistory: the texts pushed are left out, the roles are kept
addToHistory(M, p) ==
    [M EXCEPT !.hist = @ \o <<"user", "model">>]

\* phaseReady without the onPhaseChange call
phaseReadyUnannounced(M) ==
    startReturns(onLog([M EXCEPT !.currentPhase = "READY", !.ps.status = "READY"]))

\* runAIWorkflow, "Phase 6: Ready", and the return into start
phaseReady(M) ==
    startReturns(onLog(enterPhase(M, "READY")))

\* pushTerminalLog keeping the failed validations only
pushTerminalLogOnFailure(M, result) ==
    IF result.success THEN M
    ELSE [M EXCEPT !.ps.terminal_logs =
             Append(@, [exit_code |-> result.exit_code, stderr |-> result.stderr])]

\* compilationService.validateCode has been called once more
validated(M) == [M EXCEPT !.run.validations = @ + 1]

pushTerminalLog(M, result) ==
    [M EXCEPT !.ps.terminal_logs =
        Append(@, [exit_code |-> result.exit_code, stderr |-> result.stderr])]

RECURSIVE healingLoop(_)
RECURSIVE executePatchingPhase(_)
RECURSIVE afterPatchingPhase(_)

\* healingLoop with the bound of the while loop off by one
healingLoopOffByOne(M) ==
    IF M.ps.iteration_count <= M.ps.max_iterations /\ ~M.run.result.success
      THEN executePatchingPhase(
               onLog([M EXCEPT !.ps.iteration_count = @ + 1]))
      ELSE IF M.ps.iteration_count >= M.ps.max_iterations
             THEN phaseReady(onLog([M EXCEPT !.run.maxReached = TRUE]))
             ELSE phaseReady(M)

\* executeCompilationAndHealing, from the head of the while loop
healingLoop(M) ==
    IF M.ps.iteration_count < M.ps.max_iterations /\ ~M.run.result.success
      THEN executePatchingPhase(
               onLog([M EXCEPT !.ps.iteration_count = @ + 1]))
      ELSE IF M.ps.iteration_count >= M.ps.max_iterations
             THEN phaseReady(onLog([M EXCEPT !.run.maxReached = TRUE]))
             ELSE phaseReady(M)

\* executePatchingPhase up to its sendPrompt
executePatchingPhase(M) ==
    IF ~M.isRunning THEN afterPatchingPhase(M)
    ELSE sendPrompt(onLog(enterPhase(M, "PATCHING")), "PATCHING")

\* afterPatchingPhase giving up as soon as the same error persists
afterPatchingPhaseUnlessSameError(M) ==
    LET newResult == validateCode(M.ps)
        M1 == pushTerminalLog(validated(M), newResult)
    IN  IF newResult.success THEN phaseReady(onLog(M1))
        ELSE IF newResult.stderr = M.run.result.stderr
          THEN phaseReady(onLog([M1 EXCEPT !.run.maxReached = TRUE]))
        ELSE healingLoop(M1)

\* afterPatchingPhase without the re-compilation
afterPatchingPhaseNoRevalidation(M) == healingLoop(M)

\* executeCompilationAndHealing, the loop body after executePatchingPhase
afterPatchingPhase(M) ==
    LET newResult == validateCode(M.ps)
        M1 == pushTerminalLog(validated(M), newResult)
    IN  IF newResult.success THEN phaseReady(onLog(M1))
        ELSE IF newResult.stderr = M.run.result.stderr
          THEN healingLoop(onLog([M1 EXCEPT !.run.sameError = @ + 1]))
        ELSE healingLoop(M1)

\* executeCompilationAndHealing up to the while loop
executeCompilationAndHealing(M) ==
    IF ~M.isRunning THEN phaseReady(M)
    ELSE LET result == validateCode(M.ps)
             M1 == pushTerminalLog(validated(onLog(M)), result)
         IN  IF result.success THEN phaseReady(onLog(M1))
             ELSE IF ~isRecoverableError(result)
               THEN aiWorkflowThrows(onLog([M1 EXCEPT !.run.fatal = TRUE]))
             ELSE healingLoop([onLog(M1) EXCEPT !.run.result = result])

\* executeCodingPhase without the test of isRunning
executeCodingPhaseUnstoppable(M) ==
    sendPrompt(onLog(enterPhase(M, "CODING")), "CODING")

\* each phase up to its sendPrompt; a phase entered after stop() returns at once
executeCodingPhase(M) ==
    IF ~M.isRunning THEN executeCompilationAndHealing(M)
    ELSE sendPrompt(onLog(enterPhase(M, "CODING")), "CODING")

executeArchitecturePhase(M) ==
    IF ~M.isRunning THEN executeCodingPhase(M)
    ELSE sendPrompt(onLog(enterPhase(M, "ARCHITECTING")), "ARCHITECTING")

\* executeDesignPhase announcing the phase that follows it
executeDesignPhaseMisannounced(M) ==
    IF ~M.isRunning THEN executeArchitecturePhase(M)
    ELSE sendPrompt(onLog(enterPhase(M, "ARCHITECTING")), "DESIGNING")

executeDesignPhase(M) ==
    IF ~M.isRunning THEN executeArchitecturePhase(M)
    ELSE sendPrompt(onLog(enterPhase(M, "DESIGNING")), "DESIGNING")

executePlanningPhase(M) ==
    IF ~M.isRunning THEN executeDesignPhase(M)
    ELSE sendPrompt(onLog(enterPhase(M, "PLANNING")), "PLANNING")

runAIWorkflow(M) == executePlanningPhase(onLog(M))

(***************************************************************************)
(* What parseAgentResponse returns for a response text, as far as the      *)
(* phases read it.  isNull: the text is the JSON value null.  has: the     *)
(* fields present (and truthy) in the payload.  The raw fallback           *)
(* {thought, output, raw} has none of the fields the phases read.          *)
(***************************************************************************)
RawPayload ==
    [isNull |-> FALSE, has |-> {}, design_system |-> "none", file_system |-> <<>>,
     files |-> <<>>, fixes |-> <<>>, request_human_help |-> FALSE]

NullPayload == [RawPayload EXCEPT !.isNull = TRUE]

File(path, type, content) == [path |-> path, type |-> type, content |-> content]
Fix(path, before, after) == [file |-> path, before |-> before, after |-> after]

PlanningPayloads == {[RawPayload EXCEPT !.has = {"plan"}], NullPayload}

DesignPayloads ==
    {[RawPayload EXCEPT !.has = {"design_system"}, !.design_system = "complete"]}

\* the second payload names one path twice
ArchitecturePayloads ==
    {[RawPayload EXCEPT !.has = {"file_system"},
                        !.file_system = <<File("src/App.tsx", "file", <<>>)>>],
     [RawPayload EXCEPT !.has = {"file_system"},
                        !.file_system = <<File("src/App.tsx", "file", <<>>),
                                          File("src/App.tsx", "file", <<>>)>>]}

CodingPayloads ==
    {[RawPayload EXCEPT !.has = {"files"}, !.files = <<File(path, "file", content)>>] :
        path \in {"src/App.tsx"}, content \in {<<"clean">>, <<"todo">>}}
    \cup {[RawPayload EXCEPT !.has = {"files"},
                             !.files = <<File("src/ENOMEM.ts", "file", <<"todo">>)>>],
          [RawPayload EXCEPT !.has = {"files"},
                             !.files = <<File("src/App.tsx", "file", <<"todo">>),
                                         File("src/ENOMEM.ts", "file", <<"clean">>)>>]}

PatchingPayloads ==
    {[RawPayload EXCEPT !.request_human_help = TRUE],
     RawPayload,
     [RawPayload EXCEPT !.has = {"fixes"},
                        !.fixes = <<Fix("src/App.tsx", "todo", "clean")>>],
     [RawPayload EXCEPT !.has = {"fixes"},
                        !.fixes = <<Fix("src/ENOMEM.ts", "clean", "todo")>>]}

\* the payloads of the self-healing example of the README: the Coder writes a
\* file with the recharts import error, the Patcher sends the fix for that line
\* (or, as a fix that does not match, the fix for another text)
ExampleCodingPayloads ==
    {[RawPayload EXCEPT !.has = {"files"},
                        !.files = <<File("src/App.tsx", "file", content)>>] :
        content \in {<<"linechart">>, <<"clean", "linechart">>}}

ExamplePatchingPayloads ==
    {[RawPayload EXCEPT !.has = {"fixes"},
                        !.fixes = <<Fix("src/App.tsx", before, "line")>>] :
        before \in {"linechart", "todo"}}

PayloadsOf(p) ==
    CASE p = "PLANNING"     -> PlanningPayloads
      [] p = "DESIGNING"    -> DesignPayloads
      [] p = "ARCHITECTING" -> ArchitecturePayloads
      [] p = "CODING"       -> CodingPayloads
      [] OTHER              -> PatchingPayloads

\* file_system.find(f => f.path === path): the index of the first match, 0 if none
FindFile(fs, path) ==
    IF \E i \in DOMAIN fs : fs[i].path = path
      THEN CHOOSE i \in DOMAIN fs :
               fs[i].path = path /\ \A j \in 1..(i - 1) : fs[j].path # path
      ELSE 0

\* executeCodingPhase, parsed.files.forEach from file i on
RECURSIVE mergeFiles(_, _, _)
mergeFiles(fs, files, i) ==
    IF i > Len(files) THEN fs
    ELSE LET k == FindFile(fs, files[i].path)
         IN  mergeFiles(
                 IF k # 0 THEN [fs EXCEPT ![k].content = files[i].content]
                 ELSE Append(fs, File(files[i].path, "file", files[i].content)),
                 files, i + 1)

\* Replace adding the new text when the old one is not found
ReplaceOrAppend(content, before, after) ==
    IF \E i \in DOMAIN content : content[i] = before
      THEN LET k == CHOOSE i \in DOMAIN content :
                        content[i] = before /\ \A j \in 1..(i - 1) : content[j] # before
           IN  [content EXCEPT ![k] = after]
      ELSE Append(content, after)

\* String.prototype.replace(before, after) with a string pattern: the first
\* occurrence only
Replace(content, before, after) ==
    IF \E i \in DOMAIN content : content[i] = before
      THEN LET k == CHOOSE i \in DOMAIN content :
                        content[i] = before /\ \A j \in 1..(i - 1) : content[j] # before
           IN  [content EXCEPT ![k] = after]
      ELSE content

\* applyFixes taking the fixes last to first
RECURSIVE applyFixesLastFirst(_, _, _)
applyFixesLastFirst(fs, fixes, i) ==
    IF i > Len(fixes) THEN fs
    ELSE LET rest == applyFixesLastFirst(fs, fixes, i + 1)
             k == FindFile(rest, fixes[i].file)
         IN  IF k # 0 /\ rest[k].content # <<>>
               THEN [rest EXCEPT ![k].content = Replace(@, fixes[i].before, fixes[i].after)]
               ELSE rest

\* executePatchingPhase, parsed.fixes.forEach from fix i on
RECURSIVE applyFixes(_, _, _)
applyFixes(fs, fixes, i) ==
    IF i > Len(fixes) THEN fs
    ELSE LET k == FindFile(fs, fixes[i].file)
         IN  applyFixes(
                 IF k # 0 /\ fs[k].content # <<>>
                   THEN [fs EXCEPT ![k].content = Replace(@, fixes[i].before, fixes[i].after)]
                   ELSE fs,
                 fixes, i + 1)

\* no fix has been applied yet
NotPatched == [called |-> FALSE, file_system |-> <<>>]

\* the file sets and the fixes of a direct application of parsed.fixes: "gone.ts"
\* is a path no file has, "line" a text no content holds
PatchContents(m) == SeqsUpTo({"todo", "clean"}, m)
PatchFileSets(n) ==
    SeqsUpTo([path : {"src/App.tsx", "README.md"}, type : {"file"},
              content : PatchContents(MaxLines)], n)
FixSets(n) ==
    SeqsUpTo([file : {"src/App.tsx", "README.md", "src/gone.ts"},
              before : {"todo", "clean", "line"}, after : {"clean", "line"}], n)

\* executePatchingPhase, `if (parsed.fixes)`: the fixes are applied to file_system
ApplyFixes ==
    /\ ~patched.called
    /\ patched' = [called |-> TRUE, file_system |-> applyFixes(fileSet, fixSet, 1)]
    /\ UNCHANGED <<apiKey, configMode, orchVars, clientVars, fileSet, validation,
                   responseText, parsedResponse, fixSet>>

\* each phase from the return of its sendPrompt to the next suspension
resumePlanningPhase(M, parsed) ==
    IF parsed.isNull THEN aiWorkflowThrows(M)
    ELSE executeDesignPhase(notifyStateUpdate(addToHistory(
             IF "plan" \in parsed.has THEN onLog([M EXCEPT !.ps.plan = "plan"]) ELSE M,
             "PLANNING")))

resumeDesignPhase(M, parsed) ==
    IF parsed.isNull THEN aiWorkflowThrows(M)
    ELSE IF "design_system" \in parsed.has /\ parsed.design_system = "incomplete"
      THEN aiWorkflowThrows(onLog([M EXCEPT !.ps.design_system = parsed.design_system]))
    ELSE executeArchitecturePhase(notifyStateUpdate(addToHistory(
             IF "design_system" \in parsed.has
               THEN onLog([M EXCEPT !.ps.design_system = parsed.design_system])
               ELSE M,
             "DESIGNING")))

resumeArchitecturePhase(M, parsed) ==
    IF parsed.isNull THEN aiWorkflowThrows(M)
    ELSE executeCodingPhase(notifyStateUpdate(addToHistory(
             IF "file_system" \in parsed.has
               THEN onLog([M EXCEPT !.ps.file_system = parsed.file_system])
               ELSE M,
             "ARCHITECTING")))

\* resumeCodingPhase with notifyStateUpdate called before the merge
resumeCodingPhaseNotifyFirst(M, parsed) ==
    IF parsed.isNull THEN aiWorkflowThrows(M)
    ELSE executeCompilationAndHealing(addToHistory(
             IF "files" \in parsed.has
               THEN onLog([notifyStateUpdate(M) EXCEPT
                             !.ps.file_system = mergeFiles(@, parsed.files, 1),
                             !.ps.generatedCode = TRUE])
               ELSE notifyStateUpdate(M),
             "CODING"))

resumeCodingPhase(M, parsed) ==
    IF parsed.isNull THEN aiWorkflowThrows(M)
    ELSE executeCompilationAndHealing(notifyStateUpdate(addToHistory(
             IF "files" \in parsed.has
               THEN onLog([M EXCEPT !.ps.file_system = mergeFiles(@, parsed.files, 1),
                                    !.ps.generatedCode = TRUE])
               ELSE M,
             "CODING")))

resumePatchingPhase(M, parsed) ==
    IF parsed.isNull THEN aiWorkflowThrows(M)
    ELSE IF parsed.request_human_help
      THEN afterPatchingPhase(
               onLog([M EXCEPT !.ps.iteration_count = M.ps.max_iterations,
                               !.run.helped = TRUE]))
    ELSE afterPatchingPhase(notifyStateUpdate(addToHistory(
             IF "fixes" \in parsed.has
               THEN onLog([M EXCEPT !.ps.file_system = applyFixes(@, parsed.fixes, 1)])
               ELSE M,
             "PATCHING")))

resumePhase(M, parsed) ==
    CASE M.run.phase = "PLANNING"     -> resumePlanningPhase(M, parsed)
      [] M.run.phase = "DESIGNING"    -> resumeDesignPhase(M, parsed)
      [] M.run.phase = "ARCHITECTING" -> resumeArchitecturePhase(M, parsed)
      [] M.run.phase = "CODING"       -> resumeCodingPhase(M, parsed)
      [] OTHER                        -> resumePatchingPhase(M, parsed)

\* determineMode; "throw": 'AI mode requested but Gemini API key not configured'
determineMode ==
    CASE configMode = "simulation" -> "simulation"
      [] configMode = "ai" -> IF apiKey THEN "ai" ELSE "throw"
      [] OTHER -> IF apiKey THEN "ai" ELSE "simulation"

\* startRejects without the guard
startNeverRejects == FALSE

\* start, the guard
startRejects == isRunning

\* start after the guard, to the first suspension
start(M) ==
    LET M0 == [M EXCEPT !.isRunning = TRUE, !.currentPhase = "PLANNING",
                        !.ps.user_prompt = "prompt", !.ps.status = "PLANNING"]
        mode == determineMode
    IN  CASE mode = "throw"      -> startCatches(M0)
          [] mode = "simulation" -> runSimulation([M0 EXCEPT !.run.mode = mode])
          [] mode = "ai"         -> runAIWorkflow([M0 EXCEPT !.run.mode = mode])
          [] OTHER               -> runAIWorkflow([M0 EXCEPT !.run.mode = "hybrid"])

Commit(r, M) ==
    /\ isRunning' = M.isRunning
    /\ currentPhase' = M.currentPhase
    /\ projectState' = M.ps
    /\ conversationHistory' = M.hist
    /\ runs' = [runs EXCEPT ![r] = M.run]

InFlight(r) == runs[r].pc \in {"call", "sim"}

(***************************************************************************)
(* parseAgentResponse on a response text.  A text is a sequence of         *)
(* segments: prose, a ```json fenced block around a body, or a bare JSON   *)
(* body.  A body is a JSON text ("object": an object with fields, "null",  *)
(* "string": a JSON string) or not one ("broken").                         *)
(***************************************************************************)
JsonBodies == {"object", "null", "string", "broken"}

Segments ==
    {[kind |-> "prose", body |-> "none"]}
    \cup [kind : {"fence", "json"}, body : JsonBodies]

Texts(n) == SeqsUpTo(Segments, n)

\* JSON.parse(body) throws a SyntaxError
JsonParseThrows(body) == body = "broken"

\* rawResponse.match(/```json\s*([\s\S]*?)\s*```/): the first fenced block, 0 if none
jsonMatch(text) ==
    IF \E i \in DOMAIN text : text[i].kind = "fence"
      THEN CHOOSE i \in DOMAIN text :
               text[i].kind = "fence" /\ \A j \in 1..(i - 1) : text[j].kind # "fence"
      ELSE 0

\* JSON.parse(rawResponse) throws: the whole text is JSON only when it is one
\* bare body that parses
WholeTextParseThrows(text) ==
    ~(Len(text) = 1 /\ text[1].kind = "json" /\ ~JsonParseThrows(text[1].body))

Parsed(value) ==
    [called |-> TRUE, threw |-> FALSE, raw |-> FALSE, output |-> <<>>, value |-> value]

\* parseAgentResponse with the second try block left out
parseAgentResponseUnguarded(text) ==
    IF jsonMatch(text) # 0 /\ ~JsonParseThrows(text[jsonMatch(text)].body)
      THEN Parsed(text[jsonMatch(text)].body)
    ELSE IF ~WholeTextParseThrows(text) THEN Parsed(text[1].body)
    ELSE [Parsed("none") EXCEPT !.threw = TRUE]

parseAgentResponse(text) ==
    IF jsonMatch(text) # 0 /\ ~JsonParseThrows(text[jsonMatch(text)].body)
      THEN Parsed(text[jsonMatch(text)].body)
    ELSE IF ~WholeTextParseThrows(text) THEN Parsed(text[1].body)
    ELSE [Parsed("none") EXCEPT !.raw = TRUE, !.output = text]

\* parseAgentResponse(responseText, phase) is called
ParseResponse ==
    /\ ~parsedResponse.called
    /\ parsedResponse' = parseAgentResponse(responseText)
    /\ UNCHANGED <<apiKey, configMode, orchVars, clientVars, fileSet, validation,
                   responseText, fixSet, patched>>

(***************************************************************************)
(* The steps of the orchestrator.                                          *)
(***************************************************************************)
\* orchestrator.start(userPrompt) is called
Start ==
    /\ IF startRejects
         THEN /\ rejected' = TRUE
              /\ UNCHANGED <<isRunning, currentPhase, projectState,
                             conversationHistory, runs>>
         ELSE /\ \E r \in Runs :
                    /\ runs[r].pc = "idle"
                    /\ \A q \in 1..(r - 1) : runs[q].pc # "idle"
                    /\ Commit(r, start(Machine(r)))
              /\ UNCHANGED rejected
    /\ UNCHANGED <<apiKey, configMode, clientVars, libVars>>

\* orchestrator.stop() is called
Stop ==
    /\ isRunning' = FALSE
    /\ runs' = [r \in Runs |->
                  IF InFlight(r) THEN [runs[r] EXCEPT !.stopped = TRUE] ELSE runs[r]]
    /\ UNCHANGED <<currentPhase, projectState, conversationHistory, rejected,
                   apiKey, configMode, clientVars, libVars>>

\* RequestReturns with the failures of the earlier attempts surfacing as an error
RequestReturnsUnlessRetried(r) ==
    /\ runs[r].pc = "call"
    /\ runs[r].call.st = "fetch"
    /\ IF runs[r].call.attempt > 0
         THEN Commit(r, aiWorkflowThrows(Machine(r)))
         ELSE \E parsed \in PayloadsOf(runs[r].phase) :
                  Commit(r, resumePhase(Machine(r), parsed))
    /\ UNCHANGED <<rejected, apiKey, configMode, clientVars, libVars>>

\* a request attempt of a suspended sendPrompt brings a response with text, its
\* payload one of `payloads`: sendPrompt returns and the phase goes on
Responds(r, payloads) ==
    /\ runs[r].pc = "call"
    /\ runs[r].call.st = "fetch"
    /\ \E parsed \in payloads :
           Commit(r, resumePhase(
                         [Machine(r) EXCEPT !.run.retried = runs[r].call.attempt,
                                            !.run.responses = @ + 1],
                         parsed))
    /\ UNCHANGED <<rejected, apiKey, configMode, clientVars, libVars>>

RequestReturns(r) == Responds(r, PayloadsOf(runs[r].phase))

\* RequestThrows with the error swallowed by the phase, which goes on as if the
\* response had carried nothing
RequestThrowsIgnored(r) ==
    /\ runs[r].pc = "call"
    /\ runs[r].call.st = "fetch"
    /\ \E o \in Failures : AfterFailure(runs[r].call, AttemptError(o)).st = "thrown"
    /\ Commit(r, resumePhase(Machine(r), RawPayload))
    /\ UNCHANGED <<rejected, apiKey, configMode, clientVars, libVars>>

\* a request attempt of a suspended sendPrompt fails and retryWithBackoff throws
RequestThrows(r) ==
    /\ runs[r].pc = "call"
    /\ runs[r].call.st = "fetch"
    /\ \E o \in Failures : AfterFailure(runs[r].call, AttemptError(o)).st = "thrown"
    /\ Commit(r, aiWorkflowThrows(Machine(r)))
    /\ UNCHANGED <<rejected, apiKey, configMode, clientVars, libVars>>

\* a request attempt of a suspended sendPrompt fails and retryWithBackoff waits
RequestRetries(r) ==
    /\ runs[r].pc = "call"
    /\ runs[r].call.st = "fetch"
    /\ \E o \in Failures :
         /\ AfterFailure(runs[r].call, AttemptError(o)).st = "wait"
         /\ Commit(r, [Machine(r) EXCEPT
                         !.run.call = AfterFailure(runs[r].call, AttemptError(o))])
    /\ UNCHANGED <<rejected, apiKey, configMode, clientVars, libVars>>

\* the backoff timer of a suspended sendPrompt fires
BackoffEnds(r) ==
    /\ runs[r].pc = "call"
    /\ runs[r].call.st = "wait"
    /\ Commit(r, [Machine(r) EXCEPT !.run.call = AfterBackoff(runs[r].call)])
    /\ UNCHANGED <<rejected, apiKey, configMode, clientVars, libVars>>

\* the timer of a simulation step fires
SimulationTimer(r) ==
    /\ runs[r].pc = "sim"
    /\ Commit(r, simulationStep(Machine(r)))
    /\ UNCHANGED <<rejected, apiKey, configMode, clientVars, libVars>>

Init ==
    /\ apiKey \in BOOLEAN
    /\ configMode \in {"simulation", "ai", "hybrid"}
    /\ isRunning = FALSE
    /\ currentPhase = "PLANNING"
    /\ projectState = createInitialState
    /\ conversationHistory = <<>>
    /\ runs = [r \in Runs |-> IdleRun]
    /\ rejected = FALSE
    /\ client = NoCall
    /\ clientLog = <<>>
    /\ clientWaits = <<>>
    /\ clientError = <<>>
    /\ fileSet = <<>>
    /\ validation = NotValidated
    /\ responseText = <<>>
    /\ parsedResponse = NotParsed
    /\ fixSet = <<>>
    /\ patched = NotPatched

\* The orchestrator and its callers.  The retries inside a sendPrompt in flight
\* change nothing the orchestrator reads: here a sendPrompt returns or throws.
Next ==
    \/ Start
    \/ Stop
    \/ \E r \in Runs : RequestReturns(r)
    \/ \E r \in Runs : RequestThrows(r)
    \/ \E r \in Runs : SimulationTimer(r)

Spec == Init /\ [][Next]_vars

\* The orchestrator with the retries of each sendPrompt in flight
NextRetry ==
    \/ Next
    \/ \E r \in Runs : RequestRetries(r)
    \/ \E r \in Runs : BackoffEnds(r)

SpecRetry == Init /\ [][NextRetry]_vars

\* One workflow run on a fresh orchestrator, with the retries of its sendPrompt
\* calls: start() is called once.
StartAlone ==
    /\ \A r \in Runs : runs[r].pc = "idle"
    /\ Start

NextOneRun ==
    \/ StartAlone
    \/ Stop
    \/ \E r \in Runs : RequestReturns(r)
    \/ \E r \in Runs : RequestThrows(r)
    \/ \E r \in Runs : RequestRetries(r)
    \/ \E r \in Runs : BackoffEnds(r)
    \/ \E r \in Runs : SimulationTimer(r)

SpecOneRun == Init /\ [][NextOneRun]_vars

\* The same run when the service may also answer as in the self-healing
\* example of the README
ExamplePayloadsOf(p) ==
    CASE p = "CODING"   -> CodingPayloads \cup ExampleCodingPayloads
      [] p = "PATCHING" -> PatchingPayloads \cup ExamplePatchingPayloads
      [] OTHER          -> PayloadsOf(p)

ExampleRequestReturns(r) == Responds(r, ExamplePayloadsOf(runs[r].phase))

NextExample ==
    \/ StartAlone
    \/ Stop
    \/ \E r \in Runs : ExampleRequestReturns(r)
    \/ \E r \in Runs : RequestThrows(r)
    \/ \E r \in Runs : RequestRetries(r)
    \/ \E r \in Runs : BackoffEnds(r)
    \/ \E r \in Runs : SimulationTimer(r)

SpecExample == Init /\ [][NextExample]_vars

\* The state after construction, with nothing chosen yet
Constructed ==
    /\ apiKey = FALSE
    /\ configMode = "simulation"
    /\ isRunning = FALSE
    /\ currentPhase = "PLANNING"
    /\ projectState = createInitialState
    /\ conversationHistory = <<>>
    /\ runs = [r \in Runs |-> IdleRun]
    /\ rejected = FALSE
    /\ client = NoCall
    /\ clientLog = <<>>
    /\ clientWaits = <<>>
    /\ clientError = <<>>

\* parseAgentResponse called on each text of the model
InitParser ==
    /\ Constructed
    /\ responseText \in Texts(MaxSegments)
    /\ parsedResponse = NotParsed
    /\ fileSet = <<>>
    /\ validation = NotValidated
    /\ fixSet = <<>>
    /\ patched = NotPatched

NextParser == ParseResponse

SpecParser == InitParser /\ [][NextParser]_vars

\* validateCode called on each file set of the model
InitValidator ==
    /\ Constructed
    /\ fileSet \in FileSets(MaxFiles)
    /\ validation = NotValidated
    /\ responseText = <<>>
    /\ parsedResponse = NotParsed
    /\ fixSet = <<>>
    /\ patched = NotPatched

NextValidator == ValidateCode

SpecValidator == InitValidator /\ [][NextValidator]_vars

\* parsed.fixes applied to each file set of the model
InitPatcher ==
    /\ Constructed
    /\ fileSet \in PatchFileSets(MaxFiles)
    /\ fixSet \in FixSets(MaxFixes)
    /\ patched = NotPatched
    /\ validation = NotValidated
    /\ responseText = <<>>
    /\ parsedResponse = NotParsed

NextPatcher == ApplyFixes

SpecPatcher == InitPatcher /\ [][NextPatcher]_vars

\* a request attempt of run r is in flight: the steps that end it are enabled
\* exactly then, and each of them changes runs[r]
RequestInFlight(r) == runs[r].pc = "call" /\ runs[r].call.st = "fetch"

\* One workflow run, when every request in flight ends (with a response or a
\* failure) and every timer fires: fetch settles, setTimeout callbacks run.  The
\* first conjunct is weak fairness of the steps that end a request, with
\* RequestInFlight(r) written for their ENABLED.
Fairness ==
    \A r \in Runs :
        /\ \/ []<>(~RequestInFlight(r))
           \/ []<><<RequestReturns(r) \/ RequestThrows(r) \/ RequestRetries(r)>>_vars
        /\ WF_vars(BackoffEnds(r))
        /\ WF_vars(SimulationTimer(r))

SpecLive == Init /\ [][NextOneRun]_vars /\ Fairness

NextClient ==
    \/ ClientSendPrompt
    \/ ClientAttemptEnds
    \/ ClientBackoffEnds

SpecClient == Init /\ [][NextClient]_vars

(***************************************************************************)
(* The properties.                                                         *)
(***************************************************************************)
\* C1: iteration_count stays between 0 and max_iterations in every state, and no
\* step, of any run in any mode and after any start/stop sequence, decreases it.
IterationCountBounded ==
    /\ [](/\ 0 <= projectState.iteration_count
          /\ projectState.iteration_count <= projectState.max_iterations)
    /\ [][projectState'.iteration_count >= projectState.iteration_count]_vars

\* the healing budget is used up by a run whose loop ended on it
IterationCountAtCap ==
    /\ projectState.iteration_count = projectState.max_iterations
    /\ \E r \in Runs : runs[r].maxReached

\* C2: when a run of the AI workflow, never stopped and the only start() of its
\* orchestrator, announces READY and calls onComplete, terminal_logs is not empty
\* and its last entry has exit_code 0.
SuccessEndsOnCleanBuild ==
    [][\A r \in Runs :
         (/\ runs[r].completed = 0
          /\ runs'[r].completed = 1
          /\ runs'[r].mode = "ai"
          /\ runs'[r].ready
          /\ ~runs'[r].stopped
          /\ \A q \in Runs \ {r} : runs'[q].pc = "idle")
         => /\ projectState'.terminal_logs # <<>>
            /\ projectState'.terminal_logs[Len(projectState'.terminal_logs)].exit_code = 0]_vars

\* C3: a run whose healing loop ended with iteration_count >= max_iterations
\* after a failed validation never announces READY and never calls onComplete.
ExhaustionIsNotSuccess ==
    \A r \in Runs :
        runs[r].maxReached => ~runs[r].ready /\ runs[r].completed = 0

AtMostOneRunInFlight ==
    Cardinality({r \in Runs : InFlight(r)}) <= 1

\* C6: a start() call made while isRunning throws at once and changes neither
\* projectState, conversationHistory, currentPhase, isRunning nor what any run
\* has emitted.
StartWhileRunningChangesNothing ==
    [][(isRunning /\ Start) =>
          /\ rejected'
          /\ UNCHANGED <<isRunning, currentPhase, projectState,
                         conversationHistory, runs>>]_vars

\* a start() call was rejected and the run it met is still in flight
StartWasRejected ==
    rejected /\ isRunning /\ \E r \in Runs : InFlight(r)

NoPhaseChangeAfterStop ==
    [][\A r \in Runs :
         (runs[r].stopped /\ runs'[r] # runs[r])
         => /\ runs'[r].ready = runs[r].ready
            /\ projectState'.status = projectState.status]_vars

\* C9: a direct sendPrompt call makes no request attempt without a key, and a
\* request attempt answered with HTTP 401 or 403 is the last one of its call.
AuthFailureIsNotRetried ==
    /\ ~apiKey => clientLog = <<>> /\ clientWaits = <<>>
    /\ \A i \in 1..(Len(clientLog) - 1) :
           ~(clientLog[i].kind = "http" /\ clientLog[i].status \in {401, 403})

\* C10: the k-th wait of a sendPrompt call (k from 0) lasts
\* min(initialDelay * 2^k, maxDelay).
BackoffDelaysDouble ==
    \A k \in 0..(Len(clientWaits) - 1) :
        clientWaits[k + 1] = Min(initialDelay * 2^k, maxDelay)

\* a call has waited before each of its maxRetries retries
AllRetriesWaited ==
    Len(clientWaits) = maxRetries /\ clientWaits = <<1000, 2000, 4000>>

\* the failures the retry loop is meant for: rate limit, server unavailable,
\* empty response
Transient(o) ==
    \/ o.kind = "empty"
    \/ o.kind = "http" /\ o.status \in {429, 500, 503}

ThirdAttemptCompletesPhase ==
    [][\A r \in Runs :
         (RequestReturns(r) /\ runs[r].call.attempt = 2) =>
           /\ \E parsed \in PayloadsOf(runs[r].phase) :
                LET M == resumePhase([Machine(r) EXCEPT !.run.call = NewCall,
                                                        !.run.retried = 2,
                                                        !.run.responses = @ + 1],
                                     parsed)
                IN  /\ projectState' = M.ps
                    /\ conversationHistory' = M.hist
                    /\ currentPhase' = M.currentPhase
                    /\ isRunning' = M.isRunning
                    /\ runs'[r] = M.run
           /\ (runs[r].phase = "PLANNING" /\ isRunning /\ runs'[r].errored = 0) =>
                /\ Len(conversationHistory') = Len(conversationHistory) + 2
                /\ runs'[r].pc = "call"
                /\ runs'[r].phase = "DESIGNING"]_vars

\* the Planner request returned after two failed attempts and the Designer
\* request is in flight, with the plan stored and the exchange in the history
PlanningCompletedOnThirdAttempt ==
    \E r \in Runs :
        /\ runs[r].retried = 2
        /\ runs[r].pc = "call"
        /\ runs[r].phase = "DESIGNING"
        /\ runs[r].call = NewCall
        /\ runs[r].errored = 0
        /\ projectState.plan = "plan"
        /\ conversationHistory = <<"user", "model">>

ParserFallsBackToRaw ==
    parsedResponse.called =>
        /\ ~parsedResponse.threw
        /\ ((/\ \A i \in DOMAIN responseText :
                   responseText[i].kind = "fence" => responseText[i].body = "broken"
             /\ ~(/\ Len(responseText) = 1
                  /\ responseText[1].kind = "json"
                  /\ responseText[1].body # "broken"))
            => /\ parsedResponse.raw
               /\ parsedResponse.output = responseText)

\* prose around a fenced block that does not parse was returned as raw
RawFallbackReturned ==
    /\ parsedResponse.called
    /\ parsedResponse.raw
    /\ Len(responseText) = 2
    /\ responseText[1].kind = "prose"
    /\ responseText[2] = [kind |-> "fence", body |-> "broken"]

\* C15: when the Planner's response carries no plan (plan is left as it was),
\* the Planning phase raises nothing: the run calls no onError and the exchange
\* is appended to the history as for any completed phase.
PayloadWithoutFieldIsSkipped ==
    [][\A r \in Runs :
         (/\ RequestReturns(r)
          /\ runs[r].phase = "PLANNING"
          /\ projectState.plan = "none"
          /\ projectState'.plan = "none") =>
           /\ runs'[r].errored = 0
           /\ Len(conversationHistory') = Len(conversationHistory) + 2]_vars

\* C16: validateCode returns for every file set; success holds exactly when no
\* diagnostic was produced and exactly when exit_code = 0; exit_code is 1 when
\* the analysis found diagnostics and 2, with success false, when the analysis
\* itself failed.
ValidationResultWellFormed ==
    validation.called =>
        /\ ~validation.threw
        /\ validation.result.success <=> (validation.result.stderr = <<>>)
        /\ validation.result.success <=> (validation.result.exit_code = 0)
        /\ validation.result.exit_code \in {0, 1, 2}
        /\ staticAnalysisThrows(fileSet) <=> (validation.result.exit_code = 2)
        /\ (~staticAnalysisThrows(fileSet) /\ staticAnalysis(fileSet) # <<>>)
             => validation.result.exit_code = 1

\* the analysis failed on a path that is no string, and exit_code 2 was returned
ValidatorFailureReported ==
    /\ validation.called
    /\ validation.result.exit_code = 2
    /\ ~validation.result.success
    /\ \E i \in DOMAIN fileSet : fileSet[i].path = NotAString

\* C17: for a file set of one source file with content, one of whose lines
\* contains "TODO:", validateCode returns success = false and exactly one
\* diagnostic, of type syntax.
TodoMarkerGivesOneSyntaxDiagnostic ==
    (/\ validation.called
     /\ Len(fileSet) = 1
     /\ fileSet[1].type = "file"
     /\ IsCodePath(fileSet[1].path)
     /\ \E n \in DOMAIN fileSet[1].content : "TODO:" \in LineText(fileSet[1].content[n]))
    => /\ ~validation.result.success
       /\ Len(validation.result.stderr) = 1
       /\ validation.result.stderr[1].type = "syntax"

\* C18: isRecoverableError is false for a successful result, and for a failed one
\* it is true exactly when stderr names no path holding a fatal pattern in any
\* letter case (src/ENOMEM.ts, src/enospc.js).
RecoverableUnlessFatalPattern ==
    validation.called =>
        (validation.recoverable <=>
            /\ ~validation.result.success
            /\ \A i \in DOMAIN validation.result.stderr :
                   validation.result.stderr[i].file \notin {"src/ENOMEM.ts", "src/enospc.js"})

\* a failed build whose stderr holds 'enospc' in lower case was found fatal
LowerCaseFatalPatternFound ==
    /\ validation.called
    /\ ~validation.result.success
    /\ ~validation.recoverable
    /\ \E i \in DOMAIN validation.result.stderr :
           validation.result.stderr[i].file = "src/enospc.js"

SuccessfulValidationEndsRun ==
    [][\A r \in Runs :
         (/\ runs'[r] # runs[r]
          /\ \E i \in (Len(projectState.terminal_logs) + 1)
                          ..Len(projectState'.terminal_logs) :
                 projectState'.terminal_logs[i].exit_code = 0) =>
           /\ projectState'.terminal_logs[Len(projectState'.terminal_logs)].exit_code = 0
           /\ \A i \in (Len(projectState.terminal_logs) + 1)
                           ..(Len(projectState'.terminal_logs) - 1) :
                  projectState'.terminal_logs[i].exit_code # 0
           /\ runs'[r].patchRequests = runs[r].patchRequests
           /\ projectState'.status = "READY"
           /\ currentPhase' = "READY"
           /\ runs'[r].ready
           /\ runs'[r].completed = 1
           /\ runs'[r].errored = 0
           /\ runs'[r].pc = "done"]_vars

\* a run has completed on the validation that followed its first Patch iteration
HealedAfterOnePatch ==
    \E r \in Runs :
        /\ runs[r].pc = "done"
        /\ runs[r].completed = 1
        /\ runs[r].ready
        /\ runs[r].patchRequests = 1
        /\ projectState.iteration_count = 1
        /\ Len(projectState.terminal_logs) = 2
        /\ projectState.terminal_logs[1].exit_code = 1
        /\ projectState.terminal_logs[2].exit_code = 0

\* C21: when a start() call is accepted on an orchestrator none of whose earlier
\* runs is still in flight, projectState has iteration_count 0, an empty
\* file_system and an empty terminal_logs.
EachRunStartsFresh ==
    [][\A r \in Runs :
         (/\ runs[r].pc = "idle"
          /\ runs'[r].pc # "idle"
          /\ \A q \in Runs \ {r} : runs[q].pc \in {"idle", "done"})
         => /\ projectState.iteration_count = 0
            /\ projectState.file_system = <<>>
            /\ projectState.terminal_logs = <<>>]_vars

\* C22: in hybrid mode a failure of the AI workflow is caught by the fallback to
\* the simulation, so no run of a hybrid orchestrator calls onError, and the step
\* in which the AI workflow of a run fails leaves the run in the simulation.
HybridFallsBackToSimulation ==
    /\ [](configMode = "hybrid" => \A r \in Runs : runs[r].errored = 0)
    /\ [][\A r \in Runs :
            (/\ configMode = "hybrid"
             /\ runs[r].pc = "call"
             /\ runs'[r].pc # "call"
             /\ ~runs'[r].ready)
            => runs'[r].pc = "sim"]_vars

\* C23: when every request in flight ends and every timer fires, each accepted
\* start() reaches its terminal callback (onComplete or onError) and returns; a
\* run sends at most max_iterations Patch requests and a sendPrompt call makes at
\* most maxRetries + 1 request attempts.
EveryRunTerminates ==
    /\ [](\A r \in Runs :
            /\ runs[r].patchRequests <= max_iterations
            /\ runs[r].call.attempt <= maxRetries)
    /\ \A r \in Runs :
           (runs[r].pc # "idle") ~> (runs[r].pc = "done" /\ Terminated(runs[r]))

\* a run has returned after max_iterations Patch requests, the last of which
\* was answered only on a later attempt
TerminatedAfterRetriesAndPatches ==
    \E r \in Runs :
        /\ runs[r].pc = "done"
        /\ Terminated(runs[r])
        /\ runs[r].patchRequests = max_iterations
        /\ runs[r].retried = maxRetries

\* C24: applying fixes adds and removes no entry and changes no path or type, and
\* a file keeps its content when every fix that finds it (find returns the first
\* entry with the fix's path) has a before text its content does not hold; so a
\* fix whose path no entry has changes nothing.
AbsentTargetLeavesFilesAlone ==
    patched.called =>
        /\ Len(patched.file_system) = Len(fileSet)
        /\ \A k \in DOMAIN fileSet :
               /\ patched.file_system[k].path = fileSet[k].path
               /\ patched.file_system[k].type = fileSet[k].type
               /\ (\A j \in DOMAIN fixSet :
                       FindFile(fileSet, fixSet[j].file) = k =>
                           ~ \E n \in DOMAIN fileSet[k].content :
                                 fileSet[k].content[n] = fixSet[j].before)
                  => patched.file_system[k].content = fileSet[k].content

\* a fix naming an existing file with a before text the file does not hold, or
\* naming a path no file has, has been applied to a file with content
FixWithAbsentTargetApplied ==
    /\ patched.called
    /\ Len(fileSet) > 0
    /\ fileSet[1].content # <<>>
    /\ Len(fixSet) > 0
    /\ \/ fixSet[1].file = "src/gone.ts"
       \/ /\ fixSet[1].file = fileSet[1].path
          /\ fixSet[1].before = "line"
    /\ patched.file_system = fileSet

\* C25: in every state the paths of the entries of file_system are pairwise
\* distinct, and no step of a Patch iteration changes the sequence of paths.
PathsAreUnique ==
    /\ [](\A i, j \in DOMAIN projectState.file_system :
             projectState.file_system[i].path = projectState.file_system[j].path
                 => i = j)
    /\ [][\A r \in Runs :
            (runs[r].phase = "PATCHING" /\ runs'[r] # runs[r])
            => /\ Len(projectState'.file_system) = Len(projectState.file_system)
               /\ \A i \in DOMAIN projectState.file_system :
                      projectState'.file_system[i].path
                          = projectState.file_system[i].path]_vars

\* C26: the step in which a Patch response asks for human help sets
\* iteration_count to max_iterations, applies no fix, appends nothing to
\* terminal_logs and sends no further Patch request, and no Patch request is sent
\* by that run afterwards.
HumanHelpExitsLoopAtOnce ==
    [][\A r \in Runs :
         /\ (~runs[r].helped /\ runs'[r].helped) =>
              /\ projectState'.iteration_count = projectState.max_iterations
              /\ projectState'.file_system = projectState.file_system
              /\ projectState'.terminal_logs = projectState.terminal_logs
              /\ runs'[r].patchRequests = runs[r].patchRequests
         /\ runs[r].helped => runs'[r].patchRequests = runs[r].patchRequests]_vars

\* C27: the step in which a run in its Patch loop logs a failed validation that
\* is not recoverable ends the run with onError and without READY or onComplete,
\* and sends no Patch request.
FatalResultInLoopAbortsRun ==
    [][\A r \in Runs :
         (/\ runs[r].phase = "PATCHING"
          /\ runs'[r] # runs[r]
          /\ \E i \in (Len(projectState.terminal_logs) + 1)
                          ..Len(projectState'.terminal_logs) :
                 /\ projectState'.terminal_logs[i].exit_code # 0
                 /\ ~isRecoverableError(
                        [success |-> FALSE,
                         exit_code |-> projectState'.terminal_logs[i].exit_code,
                         stderr |-> projectState'.terminal_logs[i].stderr]))
         => /\ runs'[r].patchRequests = runs[r].patchRequests
            /\ runs'[r].pc = "done"
            /\ runs'[r].errored = 1
            /\ runs'[r].completed = 0
            /\ ~runs'[r].ready]_vars

\* C28: in a step of the Patch loop of a run that was never stopped, 'Same error
\* persists' is logged once for each failed validation the step appends whose
\* stderr equals the stderr of the entry before it, and for no other.
StagnationSignalOnRepeatedError ==
    [][\A r \in Runs :
         (runs[r].phase = "PATCHING" /\ runs'[r] # runs[r] /\ ~runs'[r].stopped)
         => runs'[r].sameError - runs[r].sameError =
              Cardinality(
                  {i \in (Len(projectState.terminal_logs) + 1)
                             ..Len(projectState'.terminal_logs) :
                       /\ i > 1
                       /\ projectState'.terminal_logs[i].exit_code # 0
                       /\ projectState'.terminal_logs[i].stderr
                              = projectState'.terminal_logs[i - 1].stderr})]_vars

\* C29: while no run has been stopped, iteration_count equals the number of Patch
\* requests sent so far, and every step leaves it alone or adds exactly 1 to it.
IterationCountCountsPatchRequests ==
    /\ []((\A r \in Runs : ~runs[r].stopped) =>
            \E r \in Runs :
                /\ projectState.iteration_count = runs[r].patchRequests
                /\ \A q \in Runs \ {r} : runs[q].patchRequests = 0)
    /\ [][(\A r \in Runs : ~runs'[r].stopped) =>
            projectState'.iteration_count - projectState.iteration_count \in {0, 1}]_vars

\* C30: terminal_logs holds one entry for each validateCode call made; a step
\* changes or removes none of its entries, and each entry a step appends carries
\* the exit_code and stderr validateCode returns for the file_system the step
\* leaves, so the last entry is the most recent validation result.
TerminalLogsAppendOnly ==
    /\ [](\E r \in Runs :
             /\ Len(projectState.terminal_logs) = runs[r].validations
             /\ \A q \in Runs \ {r} : runs[q].validations = 0)
    /\ [][/\ Len(projectState'.terminal_logs) >= Len(projectState.terminal_logs)
          /\ \A i \in DOMAIN projectState.terminal_logs :
                 projectState'.terminal_logs[i] = projectState.terminal_logs[i]
          /\ \A i \in (Len(projectState.terminal_logs) + 1)
                          ..Len(projectState'.terminal_logs) :
                 /\ projectState'.terminal_logs[i].exit_code
                        = validateCode(projectState').exit_code
                 /\ projectState'.terminal_logs[i].stderr
                        = validateCode(projectState').stderr]_vars

\* a run has returned after its first validation and max_iterations
\* re-validations, the last of which passed
FourValidationsLogged ==
    \E r \in Runs :
        /\ runs[r].pc = "done"
        /\ runs[r].validations = max_iterations + 1
        /\ Len(projectState.terminal_logs) = max_iterations + 1
        /\ projectState.terminal_logs[max_iterations].exit_code = 1
        /\ projectState.terminal_logs[max_iterations + 1].exit_code = 0

\* C31: the fixes of a batch are applied in the order received, each to what the
\* fixes before it left: the batch yields what applying its first n fixes and
\* then the remaining ones yields, for every n, and a batch of two or more is the
\* one-by-one application of its fixes.
FixesApplyInOrder ==
    patched.called =>
        /\ \A n \in 0..Len(fixSet) :
               patched.file_system =
                   applyFixes(applyFixes(fileSet, SubSeq(fixSet, 1, n), 1),
                              SubSeq(fixSet, n + 1, Len(fixSet)), 1)
        /\ Len(fixSet) = 2 =>
               patched.file_system =
                   applyFixes(applyFixes(fileSet, <<fixSet[1]>>, 1), <<fixSet[2]>>, 1)

\* a batch of two fixes has been applied whose second fix changed the text the
\* first one had put in
SecondFixSawFirstFixEdit ==
    /\ patched.called
    /\ Len(fixSet) = 2
    /\ Len(fileSet) > 0
    /\ fileSet[1].content = <<"todo">>
    /\ fixSet[1] = Fix(fileSet[1].path, "todo", "clean")
    /\ fixSet[2] = Fix(fileSet[1].path, "clean", "line")
    /\ patched.file_system[1].content = <<"line">>

\* C32: while no run has ended with an error, conversationHistory holds two
\* entries, role user then role model, for each sendPrompt call that has returned
\* a response, and a step only appends to it.
HistoryGrowsByTwoPerResponse ==
    /\ []((\A r \in Runs : runs[r].errored = 0) =>
            /\ \E r \in Runs :
                   /\ Len(conversationHistory) = 2 * runs[r].responses
                   /\ \A q \in Runs \ {r} : runs[q].responses = 0
            /\ \A i \in DOMAIN conversationHistory :
                   conversationHistory[i] = IF i % 2 = 1 THEN "user" ELSE "model")
    /\ [][/\ Len(conversationHistory') >= Len(conversationHistory)
          /\ \A i \in DOMAIN conversationHistory :
                 conversationHistory'[i] = conversationHistory[i]]_vars

\* C33: in a step in which a run calls onStateUpdate, the state delivered has the
\* status of the phase whose response the step handled, and holds the plan, the
\* design system and the file_system as the step leaves them: all of the phase's
\* write is in it.
StateUpdateFollowsWholeWrite ==
    [][\A r \in Runs :
         runs'[r].updates # runs[r].updates =>
           /\ runs'[r].updates = runs[r].updates + 1
           /\ runs'[r].delivered.status = runs[r].phase
           /\ runs'[r].delivered.plan = projectState'.plan
           /\ runs'[r].delivered.design_system = projectState'.design_system
           /\ runs'[r].delivered.file_system = projectState'.file_system
           /\ runs'[r].delivered.generatedCode = projectState'.generatedCode]_vars

\* onStateUpdate has delivered the state after a Coding payload of two files was
\* merged, and after a Patch fix was applied
TwoFilesDelivered ==
    \E r \in Runs :
        /\ runs[r].delivered.status = "PATCHING"
        /\ Len(runs[r].delivered.file_system) = 2
        /\ runs[r].delivered.file_system[2].content = <<"todo">>
        /\ runs[r].updates = 5

\* the phases a run announced through onPhaseChange, in order
announced(run) == SelectSeq(run.events, LAMBDA e : e # "log")

IsPrefix(s, t) == Len(s) <= Len(t) /\ SubSeq(t, 1, Len(s)) = s

\* the announcements of an AI run that sent k Patch requests
AIOrder(k) ==
    <<"PLANNING", "DESIGNING", "ARCHITECTING", "CODING">>
      \o [i \in 1..k |-> "PATCHING"] \o <<"READY">>

\* the step sends the first request attempt of a sendPrompt call of run r
SendsRequest(r) ==
    /\ runs'[r].pc = "call"
    /\ runs[r].pc # "call" \/ runs'[r].responses # runs[r].responses

\* C34: the phases an AI run that was not stopped announces are PLANNING,
\* DESIGNING, ARCHITECTING, CODING, at most max_iterations times PATCHING, then
\* READY, and all of them once the run completes; when the run sends the request
\* of a phase, the response of every phase announced before has been handled,
\* and, unless a Patcher response asked for human help, each of them has been
\* followed by its state update and its two history entries.
PhasesRunInOrder ==
    /\ [](\A r \in Runs :
            runs[r].mode = "ai" /\ ~runs[r].stopped =>
              \E k \in 0..max_iterations :
                  /\ IsPrefix(announced(runs[r]), AIOrder(k))
                  /\ runs[r].completed = 1 => announced(runs[r]) = AIOrder(k))
    /\ [][\A r \in Runs :
            runs'[r].mode = "ai" /\ ~runs'[r].stopped /\ SendsRequest(r) =>
              /\ runs'[r].responses = Len(announced(runs'[r])) - 1
              /\ ~runs'[r].helped =>
                   /\ runs'[r].updates = runs'[r].responses
                   /\ Len(conversationHistory') = 2 * runs'[r].responses]_vars

\* an AI run that was not stopped has completed after max_iterations Patch
\* requests
AllPhasesAnnounced ==
    \E r \in Runs :
        /\ runs[r].mode = "ai" /\ ~runs[r].stopped /\ runs[r].completed = 1
        /\ announced(runs[r]) = AIOrder(max_iterations)
        /\ Len(conversationHistory) = 2 * runs[r].responses

\* C35: once stop() was called while a run waits for a Patcher response, the
\* handling of that response starts no further Patch iteration: iteration_count
\* keeps its value, and nothing beyond the validation that closes the iteration
\* under way is run or appended to terminal_logs.
StopEndsPatchLoop ==
    [][\A r \in Runs :
         runs[r].stopped /\ runs[r].pc = "call" /\ runs[r].phase = "PATCHING"
           /\ runs'[r].responses # runs[r].responses =>
             /\ projectState'.iteration_count = projectState.iteration_count
             /\ runs'[r].validations <= runs[r].validations + 1
             /\ Len(projectState'.terminal_logs)
                  <= Len(projectState.terminal_logs) + 1]_vars

AuthenticationFailure(o) == o.kind = "http" /\ o.status \in {401, 403}

\* C37: a sendPrompt call with a key is thrown out of on a failure that is not
\* an authentication failure (another HTTP status, an empty body, a network
\* error) only when that was attempt maxRetries + 1, whatever the message of
\* the error body.
NonAuthFailureIsRetriedToTheCap ==
    client.st = "thrown" /\ clientLog # <<>>
      /\ ~AuthenticationFailure(clientLog[Len(clientLog)])
      => Len(clientLog) = maxRetries + 1

\* C38: with mode 'ai' and no API key, every start() call is accepted and has
\* returned at once: its run sent no request, called neither onPhaseChange nor
\* onLog nor onComplete, called onError exactly once, and isRunning is false
\* again.
AiModeWithoutKeyFailsAtOnce ==
    configMode = "ai" /\ ~apiKey =>
      /\ ~isRunning /\ ~rejected
      /\ \A r \in Runs :
           /\ runs[r].pc \in {"idle", "done"}
           /\ runs[r].call = NoCall /\ runs[r].responses = 0
           /\ runs[r].patchRequests = 0 /\ runs[r].validations = 0
           /\ runs[r].events = <<>> /\ runs[r].completed = 0
           /\ runs[r].errored = (IF runs[r].pc = "done" THEN 1 ELSE 0)

\* with mode 'ai' and no API key start() was called twice, and both calls ended
\* in onError
SecondKeylessStartAccepted ==
    /\ configMode = "ai" /\ ~apiKey
    /\ runs[1].errored = 1 /\ runs[2].errored = 1 /\ ~rejected

\* the events of the first n steps of the script: for each step the phase
\* announced, then its log line
ScriptEvents(n) ==
    [i \in 1..(2 * n) |-> IF i % 2 = 1 THEN SIMULATION_STEPS[(i + 1) \div 2] ELSE "log"]

\* the place of a phase in the workflow
PhaseRank(p) ==
    CASE p = "PLANNING" -> 1 [] p = "DESIGNING" -> 2 [] p = "ARCHITECTING" -> 3
      [] p = "CODING" -> 4 [] p = "PATCHING" -> 5 [] p = "READY" -> 6 [] OTHER -> 0

\* C39: a simulation run sends no request and runs no validation, and
\* file_system, terminal_logs and iteration_count stay as constructed; its
\* events are the steps of SIMULATION_STEPS in order, onPhaseChange then onLog
\* for each, with phases that never go back; a run that was not stopped returns
\* through onComplete, after all the steps and with READY announced last.
SimulationFollowsScript ==
    \A r \in Runs :
        runs[r].mode = "simulation" =>
          /\ runs[r].pc # "call" /\ runs[r].call = NoCall
          /\ runs[r].responses = 0 /\ runs[r].patchRequests = 0
          /\ runs[r].validations = 0
          /\ projectState.file_system = createInitialState.file_system
          /\ projectState.terminal_logs = createInitialState.terminal_logs
          /\ projectState.iteration_count = createInitialState.iteration_count
          /\ \E n \in 0..Len(SIMULATION_STEPS) : runs[r].events = ScriptEvents(n)
          /\ \A i, j \in DOMAIN announced(runs[r]) :
                 i <= j => PhaseRank(announced(runs[r])[i])
                             <= PhaseRank(announced(runs[r])[j])
          /\ runs[r].pc = "done" /\ ~runs[r].stopped =>
               /\ runs[r].events = ScriptEvents(Len(SIMULATION_STEPS))
               /\ announced(runs[r])[Len(SIMULATION_STEPS)] = "READY"
               /\ runs[r].completed = 1 /\ runs[r].errored = 0
               /\ ~runs[r].lateEvent

\* a simulation run that was not stopped has returned after its last step
SimulationRanToTheEnd ==
    \E r \in Runs :
        /\ runs[r].mode = "simulation" /\ ~runs[r].stopped
        /\ runs[r].completed = 1
        /\ Len(runs[r].events) = 2 * Len(SIMULATION_STEPS)
        /\ runs[r].ready

\* the exit codes of the terminal_logs entries, in order
ExitCodes(ps) == [i \in DOMAIN ps.terminal_logs |-> ps.terminal_logs[i].exit_code]

\* the build fails on one diagnostic only, the recharts import error
OnlyLineChartDefect(ps) ==
    /\ ~validateCode(ps).success
    /\ Len(validateCode(ps).stderr) = 1
    /\ validateCode(ps).stderr[1].type = "import"

\* the fix of the README for the file the build failed on
LineChartFix(ps) ==
    <<Fix(validateCode(ps).stderr[1].file, "linechart", "line")>>

\* C40: when the only defect of the Coder's files is the line
\* import { LineChart } from 'recharts'; and the response to the first Patch
\* request replaces that line by import { Line } from 'recharts';, the step that
\* handles the response ends the run: READY is announced last, onComplete is
\* called and not onError, iteration_count is 1 and terminal_logs holds the
\* exit codes 1, 0.
LineChartImportIsHealed ==
    [][\A r \in Runs :
         /\ runs[r].pc = "call" /\ runs[r].phase = "PATCHING"
         /\ runs[r].patchRequests = 1
         /\ runs'[r].responses = runs[r].responses + 1
         /\ OnlyLineChartDefect(projectState)
         /\ projectState'.file_system =
              applyFixes(projectState.file_system, LineChartFix(projectState), 1)
         => /\ validateCode(projectState').success
            /\ runs'[r].pc = "done"
            /\ runs'[r].completed = 1 /\ runs'[r].errored = 0
            /\ announced(runs'[r]) = AIOrder(1)
            /\ projectState'.status = "READY"
            /\ projectState'.iteration_count = 1
            /\ ExitCodes(projectState') = <<1, 0>>]_vars

\* a run has completed after one Patch request that turned the LineChart
\* import into the Line import
LineChartImportHealed ==
    \E r \in Runs :
        /\ runs[r].completed = 1 /\ runs[r].patchRequests = 1
        /\ projectState.status = "READY"
        /\ projectState.iteration_count = 1
        /\ ExitCodes(projectState) = <<1, 0>>
        /\ \E i \in DOMAIN projectState.file_system :
               /\ projectState.file_system[i].path = "src/App.tsx"
               /\ projectState.file_system[i].content = <<"clean", "line">>

====
